---- MODULE Spec2Model ----
(***************************************************************************)
(* Model of the IPAMIR binding layer (src/src/lib.rs).                     *)
(*                                                                         *)
(* The wrapper owns one native engine reference per IPAMIR value and       *)
(* forwards every operation over the C ABI declared in the extern block.   *)
(* The engine is an opaque collaborator: the model records the calls that  *)
(* cross the ABI and lets the engine answer nondeterministically.          *)
(*                                                                         *)
(* add_clause and solve take `impl Iterator<Item = i32>`: the literals are *)
(* pulled one at a time, and the caller's code behind `next()` runs        *)
(* between the engine calls. It may let time pass, use other IPAMIR        *)
(* values, or panic. A call that is pulling from its iterator is a frame;  *)
(* frames nest, one per IPAMIR value, because the call holds `&mut self`.  *)
(***************************************************************************)
EXTENDS Integers, Sequences, FiniteSets, TLC

\* ---------------------------------------------------------------- bounds
MaxLen == 2              \* most literals one iterator yields
MaxTime == 1             \* last instant of the monotonic clock
MaxOps == 3              \* longest history of operations kept

\* ------------------------------------------------------- program constants
Null == 0                \* std::ptr::null()

Handles == {1, 2}        \* the IPAMIR values the caller works with
Ptrs == {1, 2}           \* the non-null addresses ipamir_init hands out
Lits == {-2, 0, 1}       \* i32 values given to add_clause; 0 is the terminator
AssumeLits == {-2, 1}    \* i32 literals given as assumptions and queried
Weights == {1, 5}        \* u64 weights
Durations == 0..(MaxTime - 1)
OkCodes == {0, 10, 20, 30, 40}
BadCodes == {-1, 50}
Codes == OkCodes \cup BadCodes     \* c_int values ipamir_solve may return
Timeouts == {<<>>} \cup {<<d>> : d \in Durations}   \* Option<Duration>

\* What ipamir_signature may hand back: a pointer to UTF-8 text, a pointer to
\* bytes that are not UTF-8, or a null pointer.
SignatureAnswers == {"utf8", "invalid", "null"}

VARIABLES
    st,         \* st[h]: "absent" | "live" | "dropped", lifetime of IPAMIR h
    ptr,        \* ptr[h]: the field IPAMIR.ptr
    held,       \* held[h]: what the caller holds that borrows h, or "none"
    relCount,   \* relCount[h]: ipamir_release calls made by handle h
    eng,        \* eng[p]: what the engine knows about reference p
    fault,      \* an engine call was made on a reference that is not live
    now,        \* the monotonic clock read by Instant
    cur,        \* the wrapper call running now, or the one that ended last
    stack,      \* the calls suspended in their iterator, innermost first
    ops,        \* history: the operations the caller began, in call order
    log,        \* history: the add_hard / add_soft_lit calls the engine received
    owner,      \* owner[h]: the thread that created IPAMIR h
    tcall       \* tcall[t]: the engine call thread t has in flight, if any

base == <<st, ptr, held, relCount, eng, fault, now, cur, stack>>
hist == <<ops, log>>
thr == <<owner, tcall>>
vars == <<st, ptr, held, relCount, eng, fault, now, cur, stack, ops, log, owner, tcall>>

\* ------------------------------------------------------- engine boundary
\* One call crossing the C ABI.
Call(f, p, lit, w, cb) == [f |-> f, p |-> p, lit |-> lit, w |-> w, cb |-> cb]

FreshEng == [live |-> TRUE, cb |-> FALSE, model |-> FALSE, dirty |-> FALSE]
DeadEng == [live |-> FALSE, cb |-> FALSE, model |-> FALSE, dirty |-> FALSE]

\* Effect of one call on the engine's view of its references.
EngStep(s, c) ==
    IF c.f = "signature"
    THEN s
    ELSE IF c.f = "init"
    THEN IF c.p = Null THEN s
         ELSE [s EXCEPT !.eng[c.p] = FreshEng]
    ELSE IF c.p = Null
    THEN [s EXCEPT !.fault = TRUE]
    ELSE IF ~s.eng[c.p].live
    THEN [s EXCEPT !.fault = TRUE]
    ELSE IF c.f = "release"
    THEN [s EXCEPT !.eng[c.p] = DeadEng]
    ELSE IF c.f \in {"add_hard", "add_soft_lit", "assume", "solve"}
    THEN [s EXCEPT !.eng[c.p].dirty = TRUE]
    ELSE IF c.f = "set_terminate"
    THEN [s EXCEPT !.eng[c.p].cb = c.cb]
    ELSE s

RECURSIVE EngRun(_, _)
EngRun(s, calls) ==
    IF calls = <<>> THEN s
    ELSE EngRun(EngStep(s, Head(calls)), Tail(calls))

\* The engine finished a solve on p with the given status.
EngSolved(s, p, code) ==
    IF s.eng[p].live
    THEN [s EXCEPT !.eng[p].model = (code \in {10, 30}),
                   !.eng[p].dirty = FALSE]
    ELSE s

\* ------------------------------------------------------------- the caller
\* pc: "iter" while the call pulls from its iterator, "solving" while it is
\* blocked in ipamir_solve, "done" once it returned or unwound.
NoCall ==
    [op |-> "none", h |-> 0, lits |-> <<>>, lit |-> 0, weight |-> 0,
     timeout |-> <<>>, calls |-> <<>>, userdata |-> <<>>, pc |-> "done",
     code |-> 0, result |-> "none", polls |-> <<>>]

\* The caller's code is running: no call is blocked in the engine and the
\* process has not been killed.
Idle == cur.pc # "solving" /\ cur.result # "crash"

HasSolution(r) == r \in {"Timeout(Some)", "Optimal"}

\* Variant: the result does not borrow the handle.
BorrowedNever(h) == FALSE

\* Solution holds `&'a mut IPAMIR` and solve returns MaxSatResult<'_> tied to
\* its `&mut self`; signature returns a &str tied to its `&self`: while either
\* is held, the handle is borrowed.
Borrowed(h) == held[h] # "none"

\* add_clause and solve hold `&mut self` for the whole call, so the code of
\* their iterator cannot name the handle the call is running on.
Locked(h) ==
    \/ cur.pc = "iter" /\ cur.h = h
    \/ \E i \in 1..Len(stack) : stack[i].h = h

Usable(h) == Idle /\ st[h] = "live" /\ ~Borrowed(h) /\ ~Locked(h)

\* A call made by the code of an iterator suspends the call that is pulling
\* from that iterator.
Push == IF cur.pc = "iter" THEN <<cur>> \o stack ELSE stack

\* The innermost call that is pulling from its iterator, once every call its
\* iterator made has ended, and the calls suspended around it.
InIter ==
    /\ cur.result # "crash"
    /\ cur.pc = "iter" \/ (cur.pc = "done" /\ stack # <<>>)
Frame == IF cur.pc = "iter" THEN cur ELSE Head(stack)
Rest == IF cur.pc = "iter" THEN stack ELSE Tail(stack)

Threads == {1, 2}        \* the caller's threads
NoThread == 0

InitBase ==
    /\ st = [h \in Handles |-> "absent"]
    /\ ptr = [h \in Handles |-> Null]
    /\ held = [h \in Handles |-> "none"]
    /\ relCount = [h \in Handles |-> 0]
    /\ eng = [p \in Ptrs |-> DeadEng]
    /\ fault = FALSE
    /\ now = 0
    /\ cur = NoCall
    /\ stack = <<>>

InitHist ==
    /\ ops = <<>>
    /\ log = <<>>

InitThr ==
    /\ owner = [h \in Handles |-> NoThread]
    /\ tcall = [t \in Threads |-> <<>>]

Init == InitBase /\ InitHist /\ InitThr

\* Apply the calls of one wrapper step to the engine.
Forward(calls) ==
    LET s == EngRun([eng |-> eng, fault |-> fault], calls)
    IN  /\ eng' = s.eng
        /\ fault' = s.fault

\* Variant: the result of ipamir_init is not checked.
InitOkAlways(p) == TRUE

\* IPAMIR::new, line 44: assert!(ptr != null())
InitOk(p) == p # Null

\* IPAMIR::new
New(h, p) ==
    /\ Idle
    /\ st[h] # "live"
    /\ IF p = Null THEN TRUE ELSE ~eng[p].live
    /\ Forward(<<Call("init", p, 0, 0, FALSE)>>)
    /\ cur' = [NoCall EXCEPT !.op = "new", !.h = IF InitOk(p) THEN h ELSE 0,
                  !.calls = <<Call("init", p, 0, 0, FALSE)>>,
                  !.result = IF InitOk(p) THEN "none" ELSE "panic"]
    /\ stack' = Push
    /\ IF InitOk(p)
       THEN /\ st' = [st EXCEPT ![h] = "live"]
            /\ ptr' = [ptr EXCEPT ![h] = p]
            /\ relCount' = [relCount EXCEPT ![h] = 0]
       ELSE UNCHANGED <<st, ptr, relCount>>
    /\ UNCHANGED <<held, now>>

\* What signature() hands back: `c_str.to_str().unwrap()` is a slice of the
\* bytes at c_buf, the engine's own buffer; nothing is copied.
SignatureValue == "borrowed"

\* Outcomes of signature() for each answer of ipamir_signature. Text that is
\* not UTF-8 makes `to_str().unwrap()` panic (line 51). `CStr::from_ptr` on a
\* null pointer (line 50) is undefined: the read kills the process, or it
\* yields whatever bytes are found there.
SignatureResults(answer) ==
    IF answer = "utf8" THEN {SignatureValue}
    ELSE IF answer = "invalid" THEN {"panic"}
    ELSE {"crash", SignatureValue}

\* IPAMIR::signature takes `&self`: it needs the handle unborrowed or only
\* shared; the &str it returns keeps the handle borrowed while it is held.
Signature(h, answer, r) ==
    /\ Idle
    /\ st[h] = "live"
    /\ held[h] \in {"none", "&str"}
    /\ ~Locked(h)
    /\ r \in SignatureResults(answer)
    /\ Forward(<<Call("signature", Null, 0, 0, FALSE)>>)
    /\ cur' = [NoCall EXCEPT !.op = "signature", !.h = h,
                  !.calls = <<Call("signature", Null, 0, 0, FALSE)>>,
                  !.result = r]
    /\ stack' = Push
    /\ held' = [held EXCEPT ![h] = IF r = SignatureValue THEN "&str" ELSE @]
    /\ UNCHANGED <<st, ptr, relCount, now>>

\* Variant: the soft literal is sent twice.
AddSoftLitCallsTwice(p, lit, weight) ==
    <<Call("add_soft_lit", p, lit, weight, FALSE),
      Call("add_soft_lit", p, lit, weight, FALSE)>>

\* IPAMIR::add_soft_lit
AddSoftLitCalls(p, lit, weight) == <<Call("add_soft_lit", p, lit, weight, FALSE)>>

AddSoftLit(h, lit, weight) ==
    /\ Usable(h)
    /\ Forward(AddSoftLitCalls(ptr[h], lit, weight))
    /\ cur' = [NoCall EXCEPT !.op = "add_soft_lit", !.h = h, !.lit = lit,
                  !.weight = weight,
                  !.calls = AddSoftLitCalls(ptr[h], lit, weight)]
    /\ stack' = Push
    /\ UNCHANGED <<st, ptr, held, relCount, now>>

\* Variant: a zero yielded by the iterator is dropped.
AddClauseLitCallsSkipZero(p, lit) ==
    IF lit = 0 THEN <<>> ELSE <<Call("add_hard", p, lit, 0, FALSE)>>

\* IPAMIR::add_clause, line 61: the body of the for loop
AddClauseLitCalls(p, lit) == <<Call("add_hard", p, lit, 0, FALSE)>>

\* Variant: the terminating zero is not sent.
AddClauseEndCallsNoZero(p) == <<>>

\* IPAMIR::add_clause, line 63: after the loop
AddClauseEndCalls(p) == <<Call("add_hard", p, 0, 0, FALSE)>>

\* IPAMIR::add_clause is entered; nothing is sent before the iterator is asked.
AddClauseBegin(h) ==
    /\ Usable(h)
    /\ cur' = [NoCall EXCEPT !.op = "add_clause", !.h = h, !.pc = "iter"]
    /\ stack' = Push
    /\ UNCHANGED <<st, ptr, held, relCount, eng, fault, now>>

\* The iterator of add_clause yields `lit`, which is forwarded at once.
AddClauseYield(lit) ==
    /\ InIter
    /\ Frame.op = "add_clause"
    /\ Len(Frame.lits) < MaxLen
    /\ Forward(AddClauseLitCalls(ptr[Frame.h], lit))
    /\ cur' = [Frame EXCEPT !.lits = Append(@, lit),
                  !.calls = @ \o AddClauseLitCalls(ptr[Frame.h], lit)]
    /\ stack' = Rest
    /\ UNCHANGED <<st, ptr, held, relCount, now>>

\* The iterator of add_clause is exhausted: the clause is closed.
AddClauseEnd ==
    /\ InIter
    /\ Frame.op = "add_clause"
    /\ Forward(AddClauseEndCalls(ptr[Frame.h]))
    /\ cur' = [Frame EXCEPT !.pc = "done",
                  !.calls = @ \o AddClauseEndCalls(ptr[Frame.h])]
    /\ stack' = Rest
    /\ UNCHANGED <<st, ptr, held, relCount, now>>

\* The iterator of add_clause or solve panics: the call unwinds out of its
\* for loop and makes no further engine call.
IterPanic ==
    /\ InIter
    /\ cur' = [Frame EXCEPT !.pc = "done", !.result = "panic"]
    /\ stack' = Rest
    /\ UNCHANGED <<st, ptr, held, relCount, eng, fault, now>>

\* Variant: each assumption is forwarded twice.
AssumeCallsTwice(p, lit) ==
    <<Call("assume", p, lit, 0, FALSE), Call("assume", p, lit, 0, FALSE)>>

\* IPAMIR::solve, line 72: the body of the for loop
AssumeCalls(p, lit) == <<Call("assume", p, lit, 0, FALSE)>>

\* IPAMIR::solve, lines 79-85: the timer state, armed only with a timeout;
\* Instant::now() is read here, after the assumptions were pulled.
Userdata(timeout, t) ==
    IF timeout # <<>>
    THEN <<[start_time |-> t, timeout |-> timeout[1]]>>
    ELSE <<>>

\* Variant: cb is registered on every solve.
RegisterCallsAlways(p, timeout) == <<Call("set_terminate", p, 0, 0, TRUE)>>

\* IPAMIR::solve, lines 98-104: register cb, inside `if let Some(timeout)`
RegisterCalls(p, timeout) ==
    IF timeout # <<>>
    THEN <<Call("set_terminate", p, 0, 0, TRUE)>>
    ELSE <<>>

\* Variant: cb is never deregistered.
DeregisterCallsNever(p, userdata) == <<>>

\* Variant: cb is deregistered on every solve.
DeregisterCallsAlways(p, userdata) == <<Call("set_terminate", p, 0, 0, FALSE)>>

\* IPAMIR::solve, lines 109-111: deregister when userdata.is_some()
DeregisterCalls(p, userdata) ==
    IF userdata # <<>>
    THEN <<Call("set_terminate", p, 0, 0, FALSE)>>
    ELSE <<>>

\* Variant: the two statuses that carry a model are exchanged.
MapStatusSwapped(code) ==
    IF code = 0 THEN "Timeout(None)"
    ELSE IF code = 10 THEN "Optimal"
    ELSE IF code = 20 THEN "Unsat"
    ELSE IF code = 30 THEN "Timeout(Some)"
    ELSE IF code = 40 THEN "Error"
    ELSE "panic"

\* Variant: an unknown status is reported as Error.
MapStatusLenient(code) ==
    IF code = 0 THEN "Timeout(None)"
    ELSE IF code = 10 THEN "Timeout(Some)"
    ELSE IF code = 20 THEN "Unsat"
    ELSE IF code = 30 THEN "Optimal"
    ELSE "Error"

\* Variant: Unsat is built with a Solution inside.
MapStatusUnsatModel(code) ==
    IF code = 0 THEN "Timeout(None)"
    ELSE IF code = 10 THEN "Timeout(Some)"
    ELSE IF code = 20 THEN "Optimal"
    ELSE IF code = 30 THEN "Optimal"
    ELSE IF code = 40 THEN "Error"
    ELSE "panic"

\* IPAMIR::solve, lines 113-125: status code to MaxSatResult
MapStatus(code) ==
    IF code = 0 THEN "Timeout(None)"
    ELSE IF code = 10 THEN "Timeout(Some)"
    ELSE IF code = 20 THEN "Unsat"
    ELSE IF code = 30 THEN "Optimal"
    ELSE IF code = 40 THEN "Error"
    ELSE "panic"

\* Variant: the callback never asks the engine to stop.
CbNever(ud, t) == 0

\* Variant: the callback asks to stop as soon as the duration is reached.
CbAtLeast(ud, t) == IF t - ud.start_time >= ud.timeout THEN 1 ELSE 0

\* extern "C" fn cb, lines 87-96
Cb(ud, t) == IF t - ud.start_time > ud.timeout THEN 1 ELSE 0

\* Variant: ipamir_solve is entered before the callback is registered.
SolveEntryCallsSolveFirst(p, timeout) ==
    <<Call("solve", p, 0, 0, FALSE)>> \o RegisterCalls(p, timeout)

\* IPAMIR::solve, lines 81-107: the calls after the for loop, up to and
\* including the blocking ipamir_solve.
SolveEntryCalls(p, timeout) ==
    RegisterCalls(p, timeout) \o <<Call("solve", p, 0, 0, FALSE)>>

\* IPAMIR::solve is entered; nothing is sent before the iterator is asked.
SolveBegin(h, timeout) ==
    /\ Usable(h)
    /\ cur' = [NoCall EXCEPT !.op = "solve", !.h = h, !.timeout = timeout,
                  !.pc = "iter"]
    /\ stack' = Push
    /\ UNCHANGED <<st, ptr, held, relCount, eng, fault, now>>

\* The iterator of solve yields `lit`, which is forwarded at once.
SolveYield(lit) ==
    /\ InIter
    /\ Frame.op = "solve"
    /\ Len(Frame.lits) < MaxLen
    /\ Forward(AssumeCalls(ptr[Frame.h], lit))
    /\ cur' = [Frame EXCEPT !.lits = Append(@, lit),
                  !.calls = @ \o AssumeCalls(ptr[Frame.h], lit)]
    /\ stack' = Rest
    /\ UNCHANGED <<st, ptr, held, relCount, now>>

\* The iterator of solve is exhausted: the timer is armed if a timeout was
\* given, and ipamir_solve is entered (lines 75-107).
SolveCall ==
    /\ InIter
    /\ Frame.op = "solve"
    /\ Forward(SolveEntryCalls(ptr[Frame.h], Frame.timeout))
    /\ cur' = [Frame EXCEPT !.userdata = Userdata(Frame.timeout, now),
                  !.calls = @ \o SolveEntryCalls(ptr[Frame.h], Frame.timeout),
                  !.pc = "solving"]
    /\ stack' = Rest
    /\ UNCHANGED <<st, ptr, held, relCount, now>>

\* The engine polls the registered callback while ipamir_solve is running.
\* The state pointer refers to `userdata` of the solve frame; reading it
\* when that frame holds no timer state is undefined (either answer).
EnginePoll ==
    /\ cur.pc = "solving"
    /\ eng[ptr[cur.h]].cb
    /\ \E r \in {0, 1} :
        /\ cur.userdata # <<>> => r = Cb(cur.userdata[1], now)
        /\ cur' = [cur EXCEPT !.polls = <<r>>]
    /\ UNCHANGED <<st, ptr, held, relCount, eng, fault, now, stack>>

\* ipamir_solve returns `code`; the rest of IPAMIR::solve (lines 107-125)
SolveReturn(code) ==
    /\ cur.pc = "solving"
    /\ LET h == cur.h
           p == ptr[h]
           dereg == DeregisterCalls(p, cur.userdata)
           s == EngRun(EngSolved([eng |-> eng, fault |-> fault], p, code), dereg)
           r == MapStatus(code)
       IN  /\ eng' = s.eng
           /\ fault' = s.fault
           /\ cur' = [cur EXCEPT !.pc = "done", !.code = code, !.result = r,
                         !.calls = @ \o dereg, !.userdata = <<>>]
           /\ held' = [held EXCEPT ![h] = IF r = "panic" THEN "none" ELSE r]
    /\ UNCHANGED <<st, ptr, relCount, now, stack>>

\* The caller lets go of what borrows the handle: a MaxSatResult (and the
\* Solution inside it) or the &str of signature.
DropResult(h) ==
    /\ Idle
    /\ held[h] # "none"
    /\ held' = [held EXCEPT ![h] = "none"]
    /\ cur' = [NoCall EXCEPT !.op = "drop_result", !.h = h]
    /\ stack' = Push
    /\ UNCHANGED <<st, ptr, relCount, eng, fault, now>>

\* Solution::get_objective_value
GetObjectiveValue(h) ==
    /\ Idle
    /\ st[h] = "live"
    /\ HasSolution(held[h])
    /\ Forward(<<Call("val_obj", ptr[h], 0, 0, FALSE)>>)
    /\ cur' = [NoCall EXCEPT !.op = "get_objective_value", !.h = h,
                  !.calls = <<Call("val_obj", ptr[h], 0, 0, FALSE)>>]
    /\ stack' = Push
    /\ UNCHANGED <<st, ptr, held, relCount, now>>

\* Solution::get_literal_value
GetLiteralValue(h, lit) ==
    /\ Idle
    /\ st[h] = "live"
    /\ HasSolution(held[h])
    /\ Forward(<<Call("val_lit", ptr[h], lit, 0, FALSE)>>)
    /\ cur' = [NoCall EXCEPT !.op = "get_literal_value", !.h = h, !.lit = lit,
                  !.calls = <<Call("val_lit", ptr[h], lit, 0, FALSE)>>]
    /\ stack' = Push
    /\ UNCHANGED <<st, ptr, held, relCount, now>>

\* Variant: the value stays usable after its destructor ran.
DropStateLive == "live"

\* State of an IPAMIR value once its destructor has run: it is gone.
DropState == "dropped"

\* impl Drop for IPAMIR
Drop(h) ==
    /\ Usable(h)
    /\ Forward(<<Call("release", ptr[h], 0, 0, FALSE)>>)
    /\ cur' = [NoCall EXCEPT !.op = "drop", !.h = h,
                  !.calls = <<Call("release", ptr[h], 0, 0, FALSE)>>]
    /\ stack' = Push
    /\ st' = [st EXCEPT ![h] = DropState]
    /\ relCount' = [relCount EXCEPT ![h] = IF @ < 2 THEN @ + 1 ELSE @]
    /\ UNCHANGED <<ptr, held, now>>

\* Time passes.
Tick ==
    /\ now < MaxTime
    /\ now' = now + 1
    /\ UNCHANGED <<st, ptr, held, relCount, eng, fault, cur, stack>>

\* The history and thread variables belong to the specifications below.
Frozen == UNCHANGED <<hist, thr>>

Next ==
    \/ \E h \in Handles, p \in Ptrs \cup {Null} : New(h, p) /\ Frozen
    \/ \E h \in Handles, a \in SignatureAnswers, r \in {"crash", "panic", SignatureValue} :
          Signature(h, a, r) /\ Frozen
    \/ \E h \in Handles, lit \in Lits, w \in Weights : AddSoftLit(h, lit, w) /\ Frozen
    \/ \E h \in Handles : AddClauseBegin(h) /\ Frozen
    \/ \E lit \in Lits : AddClauseYield(lit) /\ Frozen
    \/ AddClauseEnd /\ Frozen
    \/ IterPanic /\ Frozen
    \/ \E h \in Handles, t \in Timeouts : SolveBegin(h, t) /\ Frozen
    \/ \E lit \in AssumeLits : SolveYield(lit) /\ Frozen
    \/ SolveCall /\ Frozen
    \/ EnginePoll /\ Frozen
    \/ \E code \in Codes : SolveReturn(code) /\ Frozen
    \/ \E h \in Handles : DropResult(h) /\ Frozen
    \/ \E h \in Handles : GetObjectiveValue(h) /\ Frozen
    \/ \E h \in Handles, lit \in AssumeLits : GetLiteralValue(h, lit) /\ Frozen
    \/ \E h \in Handles : Drop(h) /\ Frozen
    \/ Tick /\ Frozen

Spec == Init /\ [][Next]_vars

TypeOK ==
    /\ st \in [Handles -> {"absent", "live", "dropped"}]
    /\ ptr \in [Handles -> Ptrs \cup {Null}]
    /\ relCount \in [Handles -> 0..2]
    /\ fault \in BOOLEAN
    /\ now \in 0..MaxTime
    /\ Len(stack) <= Cardinality(Handles)
    /\ \A i \in 1..Len(stack) : stack[i].pc = "iter"

\* ------------------------------------------------------------------ claims
Queries == {"get_objective_value", "get_literal_value"}
\* The current call has entered ipamir_solve.
Entered == \E i \in 1..Len(cur.calls) : cur.calls[i].f = "solve"
\* ipamir_solve has returned to the current solve.
SolveDone == cur.op = "solve" /\ cur.pc = "done" /\ Entered
Dereg(p) == Call("set_terminate", p, 0, 0, FALSE)
\* Position of the blocking ipamir_solve call among the calls of a solve.
SolveAt == CHOOSE i \in 1..Len(cur.calls) : cur.calls[i].f = "solve"
\* The calls a solve made after ipamir_solve returned.
AfterSolve == SubSeq(cur.calls, SolveAt + 1, Len(cur.calls))

\* C1: every handle releases its native reference exactly once, as its last
\* engine call; no call is made on a released reference, and a reference is
\* released only by the handle that owns it. A call suspended in its iterator
\* keeps its handle alive.
C1_ReleaseExactlyOnce ==
    /\ ~fault
    /\ \A h \in Handles :
        /\ relCount[h] <= 1
        /\ st[h] = "dropped" <=> relCount[h] = 1
        /\ st[h] = "live" => ptr[h] # Null /\ eng[ptr[h]].live
    /\ \A h1, h2 \in Handles :
        h1 # h2 /\ st[h1] = "live" /\ st[h2] = "live" => ptr[h1] # ptr[h2]
    /\ cur.h \in Handles /\ cur.op # "new" =>
        /\ \A i \in 1..Len(cur.calls) :
              cur.calls[i].f # "signature" => cur.calls[i].p = ptr[cur.h]
        /\ \A i \in 1..Len(cur.calls) :
              cur.calls[i].f = "release" <=> (cur.op = "drop" /\ i = Len(cur.calls))
        /\ st[cur.h] = "dropped" => cur.op = "drop"
    /\ \A k \in 1..Len(stack) :
        /\ st[stack[k].h] = "live"
        /\ \A i \in 1..Len(stack[k].calls) :
              /\ stack[k].calls[i].p = ptr[stack[k].h]
              /\ stack[k].calls[i].f # "release"

\* C1 witness: handle 1 was destroyed, the engine handed its address to handle
\* 2, and handle 2 has added a clause.
C1_Witness ==
    /\ st[1] = "dropped" /\ relCount[1] = 1
    /\ st[2] = "live" /\ ptr[2] = ptr[1]
    /\ cur.op = "add_clause" /\ cur.h = 2 /\ cur.pc = "done"

\* C2: a solve that was given a timeout has deregistered the callback, after
\* ipamir_solve returned, by the time it returns, for each of the statuses
\* 0, 10, 20, 30 and 40.
C2_TimeoutDeregistered ==
    SolveDone /\ cur.timeout # <<>> /\ cur.code \in OkCodes =>
        /\ Len(cur.calls) >= 2
        /\ cur.calls[Len(cur.calls)] = Dereg(ptr[cur.h])
        /\ cur.calls[Len(cur.calls) - 1].f = "solve"
        /\ ~eng[ptr[cur.h]].cb

\* C2 witness: a solve with a timeout returned status 0 after the callback
\* had asked the engine to stop.
C2_Witness ==
    SolveDone /\ cur.timeout # <<>> /\ cur.code = 0 /\ cur.polls = <<1>>

\* C3 as stated: every solve ends with a deregistering set_terminate call,
\* with or without a timeout.
C3_AlwaysDeregisters ==
    SolveDone => cur.calls[Len(cur.calls)] = Dereg(ptr[cur.h])

\* C3 amended: after ipamir_solve returns, solve issues the deregistering
\* set_terminate call exactly when a timeout was supplied; without a timeout
\* it makes no engine call after ipamir_solve.
C3_DeregistersIffTimeout ==
    SolveDone =>
        AfterSolve = IF cur.timeout # <<>> THEN <<Dereg(ptr[cur.h])>> ELSE <<>>

\* C3 witness: a solve without timeout has returned; ipamir_solve was its
\* last engine call.
C3_Witness ==
    SolveDone /\ cur.timeout = <<>> /\ cur.calls[Len(cur.calls)].f = "solve"

\* C4: a solve without timeout issues no set_terminate call that carries a
\* callback, and the engine holds no callback on its reference while it runs.
C4_NoTimeoutNoRegistration ==
    /\ cur.op = "solve" /\ cur.timeout = <<>> =>
        /\ \A i \in 1..Len(cur.calls) :
              ~(cur.calls[i].f = "set_terminate" /\ cur.calls[i].cb)
        /\ ~eng[ptr[cur.h]].cb
    /\ \A k \in 1..Len(stack) :
        stack[k].op = "solve" /\ stack[k].timeout = <<>> =>
            ~eng[ptr[stack[k].h]].cb

\* C4 witness: a solve without timeout is blocked in the engine after
\* forwarding two assumptions.
C4_Witness ==
    cur.op = "solve" /\ cur.timeout = <<>> /\ cur.pc = "solving" /\ Len(cur.lits) = 2

\* C5: a status in {0, 10, 20, 30, 40} yields the one variant the table
\* gives for it, whatever the timeout and the assumptions.
C5_StatusTable ==
    SolveDone /\ cur.code \in OkCodes =>
        /\ cur.code = 0 => cur.result = "Timeout(None)"
        /\ cur.code = 10 => cur.result = "Timeout(Some)"
        /\ cur.code = 20 => cur.result = "Unsat"
        /\ cur.code = 30 => cur.result = "Optimal"
        /\ cur.code = 40 => cur.result = "Error"

\* C5 witness: status 10 from a solve with timeout and assumptions.
C5_Witness ==
    SolveDone /\ cur.code = 10 /\ cur.result = "Timeout(Some)"
        /\ cur.timeout # <<>> /\ cur.lits # <<>>

\* C6: a status outside {0, 10, 20, 30, 40} makes solve panic; the caller
\* receives no result.
C6_UnknownStatusPanics ==
    SolveDone /\ cur.code \notin OkCodes =>
        cur.result = "panic" /\ held[cur.h] = "none"

\* C6 witness: the engine answered -1.
C6_Witness ==
    SolveDone /\ cur.code = -1 /\ cur.result = "panic"

\* C7: a Solution is held, and the engine's value entry points are called,
\* only when the most recent solve on that handle returned 10 or 30.
C7_SolutionOnlyWithModel ==
    /\ \A h \in Handles :
        st[h] = "live" /\ HasSolution(held[h]) => eng[ptr[h]].model
    /\ cur.op \in Queries => eng[ptr[cur.h]].model
    /\ SolveDone /\ cur.code \notin {10, 30} => ~HasSolution(held[cur.h])

\* C7 witness: a literal value is read through a Timeout(Some) result.
C7_Witness ==
    cur.op = "get_literal_value" /\ held[cur.h] = "Timeout(Some)"

\* C8: no Solution is held, and no value query reaches the engine, once a
\* mutating call was made on the handle since the solve that produced it; a
\* call that is pulling from its iterator runs on a handle nothing borrows.
C8_NoQueryAfterMutation ==
    /\ \A h \in Handles :
        st[h] = "live" /\ HasSolution(held[h]) => ~eng[ptr[h]].dirty
    /\ cur.op \in Queries =>
        HasSolution(held[cur.h]) /\ ~eng[ptr[cur.h]].dirty
    /\ \A h \in Handles : Locked(h) => held[h] = "none"

\* C8 witness: a solve produced a model, the result was let go, and the
\* handle was mutated; nothing refers to the stale model.
C8_Witness ==
    /\ cur.op = "add_soft_lit"
    /\ eng[ptr[cur.h]].model /\ eng[ptr[cur.h]].dirty
    /\ held[cur.h] = "none"

\* C9: add_clause forwards each literal its iterator yields, in order and
\* unchanged, as one add_hard call; when the iterator is exhausted after n
\* literals it has made n+1 add_hard calls, the last with zero.
C9_ClauseThenZero ==
    cur.op = "add_clause" =>
        /\ Len(cur.calls) >= Len(cur.lits)
        /\ \A i \in 1..Len(cur.lits) :
              cur.calls[i] = Call("add_hard", ptr[cur.h], cur.lits[i], 0, FALSE)
        /\ IF cur.pc = "done" /\ cur.result # "panic"
           THEN /\ Len(cur.calls) = Len(cur.lits) + 1
                /\ cur.calls[Len(cur.lits) + 1] = Call("add_hard", ptr[cur.h], 0, 0, FALSE)
           ELSE Len(cur.calls) = Len(cur.lits)

\* C9 witness: the clause [1, -2] was added.
C9_Witness ==
    cur.op = "add_clause" /\ cur.pc = "done" /\ cur.result = "none"
        /\ cur.lits = <<1, -2>>

\* C10: the assume calls of a solve are exactly the literals its own iterator
\* yielded, once each, in order, all before ipamir_solve.
C10_AssumptionsForwarded ==
    cur.op = "solve" =>
        /\ Len(cur.calls) >= Len(cur.lits)
        /\ \A i \in 1..Len(cur.lits) :
              cur.calls[i] = Call("assume", ptr[cur.h], cur.lits[i], 0, FALSE)
        /\ \A i \in (Len(cur.lits) + 1)..Len(cur.calls) : cur.calls[i].f # "assume"
        /\ Entered => SolveAt > Len(cur.lits)
        /\ ~Entered => Len(cur.calls) = Len(cur.lits)

\* C10 witness: a second solve on a handle, with assumptions [-2, 1], is
\* blocked in the engine.
C10_Witness ==
    /\ cur.op = "solve" /\ cur.pc = "solving" /\ cur.lits = <<-2, 1>>
    /\ eng[ptr[cur.h]].model

\* ------------------------------------------- a cooperative engine (C11)
\* A solve with a zero timeout is begun.
CoopSolveBegin(h) == SolveBegin(h, <<0>>)

\* The timer is armed while the clock can still advance.
CoopSolveCall ==
    /\ now < MaxTime
    /\ SolveCall

\* The engine cannot solve the formula at once: it keeps polling and returns,
\* with one of the two early-stop statuses, once the callback said stop.
CoopReturn(code) ==
    /\ cur.polls = <<1>>
    /\ code \in {0, 10}
    /\ SolveReturn(code)

NextCoop ==
    \/ \E h \in Handles, p \in Ptrs : New(h, p) /\ Frozen
    \/ \E h \in Handles : CoopSolveBegin(h) /\ Frozen
    \/ \E lit \in AssumeLits : SolveYield(lit) /\ Frozen
    \/ CoopSolveCall /\ Frozen
    \/ EnginePoll /\ Frozen
    \/ \E code \in Codes : CoopReturn(code) /\ Frozen
    \/ \E h \in Handles : DropResult(h) /\ Frozen
    \/ \E h \in Handles : Drop(h) /\ Frozen
    \/ Tick /\ Frozen

\* Time advances, the engine polls, and the engine returns once told to stop.
SpecCoop ==
    /\ Init
    /\ [][NextCoop]_vars
    /\ WF_vars(Tick /\ Frozen)
    /\ WF_vars(EnginePoll /\ Frozen)
    /\ WF_vars(\E code \in Codes : CoopReturn(code) /\ Frozen)

\* C11: with an engine that polls and obeys the callback, a solve with a zero
\* timeout eventually returns, and what it returns is a Timeout variant.
C11_ZeroTimeoutReturns ==
    (cur.op = "solve" /\ cur.pc = "solving" /\ cur.timeout = <<0>>)
        ~> (SolveDone /\ cur.result \in {"Timeout(None)", "Timeout(Some)"})

\* C11 witness: a zero-timeout solve came back as Timeout with a model after
\* the callback had said stop.
C11_Witness ==
    /\ SolveDone /\ cur.timeout = <<0>> /\ cur.polls = <<1>>
    /\ cur.result = "Timeout(Some)"

\* C12: each poll during a solve with timeout d answers 1 when the time since
\* the timer was armed exceeds d and 0 otherwise (0 when it equals d); polling
\* leaves the start time alone, and after a 1 every later poll answers 1.
C12_CallbackAnswer ==
    [][cur.pc = "solving" /\ cur'.pc = "solving" /\ cur.userdata # <<>> =>
        /\ cur'.userdata = cur.userdata
        /\ cur'.polls # cur.polls =>
              cur'.polls = <<IF now - cur.userdata[1].start_time > cur.userdata[1].timeout
                             THEN 1 ELSE 0>>
        /\ cur.polls = <<1>> => cur'.polls = <<1>>]_vars

\* C12 witness: the engine polled when the elapsed time equalled the timeout
\* and was told to continue.
C12_Witness ==
    /\ cur.pc = "solving" /\ cur.userdata # <<>> /\ cur.polls = <<0>>
    /\ now - cur.userdata[1].start_time = cur.userdata[1].timeout

\* C13: when ipamir_init returns null, new panics: no handle exists with the
\* null reference, and no engine call ever carries it.
C13_NullInitPanics ==
    /\ cur.op = "new" /\ cur.calls[1].p = Null =>
          cur.result = "panic" /\ cur.h \notin Handles
    /\ \A h \in Handles : st[h] # "absent" => ptr[h] # Null
    /\ \A i \in 1..Len(cur.calls) :
          cur.calls[i].f \notin {"init", "signature"} => cur.calls[i].p # Null

\* C13 witness: ipamir_init returned null while another handle was alive.
C13_Witness ==
    /\ cur.op = "new" /\ cur.calls[1].p = Null /\ cur.result = "panic"
    /\ st[1] = "live" /\ st[2] = "absent"

\* ----------------------------------- the history of appends (C14, C19)
LogLits == {0, 1}        \* i32 values the iterators of the history yield

\* Handles 1 and 2 have just been created on addresses 1 and 2.
InitLog ==
    /\ st = [h \in Handles |-> "live"]
    /\ ptr = [h \in Handles |-> h]
    /\ held = [h \in Handles |-> "none"]
    /\ relCount = [h \in Handles |-> 0]
    /\ eng = [p \in Ptrs |-> FreshEng]
    /\ fault = FALSE
    /\ now = 0
    /\ cur = [NoCall EXCEPT !.op = "new", !.h = 2,
                 !.calls = <<Call("init", 2, 0, 0, FALSE)>>]
    /\ stack = <<>>
    /\ InitHist
    /\ InitThr

\* The calls among `calls` that append to the formula.
Appends(calls) ==
    SelectSeq(calls, LAMBDA c : c.f \in {"add_hard", "add_soft_lit"})

\* The calls the step of a frame has just made.
Sent == SubSeq(cur'.calls, Len(Frame.calls) + 1, Len(cur'.calls))

\* One operation of the history: what the caller asked for, the literals its
\* iterator has yielded so far, and whether the iterator was exhausted.
Op(name, h, lits, lit, weight, closed) ==
    [op |-> name, h |-> h, lits |-> lits, lit |-> lit, weight |-> weight,
     closed |-> closed]

\* The latest operation begun on handle h.
LastOn(h) ==
    CHOOSE i \in 1..Len(ops) :
        ops[i].h = h /\ \A j \in (i + 1)..Len(ops) : ops[j].h # h

LogAddSoftLit(h, lit, weight) ==
    /\ Len(ops) < MaxOps
    /\ AddSoftLit(h, lit, weight)
    /\ ops' = Append(ops, Op("add_soft_lit", h, <<>>, lit, weight, TRUE))
    /\ log' = log \o Appends(cur'.calls)
    /\ UNCHANGED thr

LogAddClauseBegin(h) ==
    /\ Len(ops) < MaxOps
    /\ AddClauseBegin(h)
    /\ ops' = Append(ops, Op("add_clause", h, <<>>, 0, 0, FALSE))
    /\ UNCHANGED <<log, thr>>

LogAddClauseYield(lit) ==
    /\ AddClauseYield(lit)
    /\ ops' = [ops EXCEPT ![LastOn(Frame.h)].lits = Append(@, lit)]
    /\ log' = log \o Appends(Sent)
    /\ UNCHANGED thr

LogAddClauseEnd ==
    /\ AddClauseEnd
    /\ ops' = [ops EXCEPT ![LastOn(Frame.h)].closed = TRUE]
    /\ log' = log \o Appends(Sent)
    /\ UNCHANGED thr

LogSolveBegin(h) ==
    /\ Len(ops) < MaxOps
    /\ SolveBegin(h, <<>>)
    /\ ops' = Append(ops, Op("solve", h, <<>>, 0, 0, FALSE))
    /\ UNCHANGED <<log, thr>>

LogSolveCall ==
    /\ SolveCall
    /\ log' = log \o Appends(Sent)
    /\ UNCHANGED <<ops, thr>>

NextLog ==
    \/ \E h \in Handles, w \in Weights : LogAddSoftLit(h, 1, w)
    \/ LogAddClauseBegin(1)
    \/ \E lit \in LogLits : LogAddClauseYield(lit)
    \/ LogAddClauseEnd
    \/ IterPanic /\ Frozen
    \/ LogSolveBegin(1)
    \/ LogSolveCall
    \/ SolveReturn(20) /\ Frozen
    \/ \E h \in Handles : DropResult(h) /\ Frozen

SpecLog == InitLog /\ [][NextLog]_vars

\* What one operation of the history puts on the wire, as the contract says:
\* a clause is the literals pulled from its iterator, then zero once the
\* iterator is exhausted; a soft literal is one call; a solve appends nothing.
Wire(o) ==
    IF o.op = "add_clause"
    THEN [i \in 1..(Len(o.lits) + (IF o.closed THEN 1 ELSE 0)) |->
            Call("add_hard", ptr[o.h],
                 IF i <= Len(o.lits) THEN o.lits[i] ELSE 0, 0, FALSE)]
    ELSE IF o.op = "add_soft_lit"
    THEN <<Call("add_soft_lit", ptr[o.h], o.lit, o.weight, FALSE)>>
    ELSE <<>>

RECURSIVE Flat(_)
Flat(os) == IF os = <<>> THEN <<>> ELSE Wire(Head(os)) \o Flat(Tail(os))

\* The operations begun on handle h, and the appends its reference received.
OpsOn(h) == SelectSeq(ops, LAMBDA o : o.h = h)
LogOn(h) == SelectSeq(log, LAMBDA c : c.p = ptr[h])

\* C14: the add_hard and add_soft_lit calls a handle's reference has received
\* are the calls of each operation on that handle, one operation after the
\* other in call order, never interleaved; add_soft_lit is one call with the
\* caller's literal and weight.
C14_AppendsInCallOrder ==
    /\ \A h \in Handles : LogOn(h) = Flat(OpsOn(h))
    /\ Len(log) = Len(Flat(ops))
    /\ cur.op = "add_soft_lit" =>
          cur.calls = <<Call("add_soft_lit", ptr[cur.h], cur.lit, cur.weight, FALSE)>>

\* C14 witness: the iterator of a clause on handle 1 yielded 1, appended a soft
\* literal to handle 2, and yielded 0; then handle 1 got a soft literal.
C14_Witness ==
    /\ Len(ops) = 3 /\ cur.op = "add_soft_lit" /\ cur.h = 1
    /\ ops[1].op = "add_clause" /\ ops[1].h = 1 /\ ops[1].lits = <<1, 0>>
    /\ ops[1].closed
    /\ ops[2].op = "add_soft_lit" /\ ops[2].h = 2
    /\ Len(log) = 5 /\ log[2].f = "add_soft_lit"

\* C19: a zero yielded by the iterator goes to the engine like any other
\* value, so add_clause(xs ++ [0] ++ ys) puts on the wire what add_clause(xs)
\* followed by add_clause(ys) puts there.
C19_EmbeddedZeroSplits ==
    /\ cur.op = "add_clause" =>
          \A i \in 1..Len(cur.lits) :
              cur.lits[i] = 0 =>
                  /\ i <= Len(cur.calls)
                  /\ cur.calls[i] = Call("add_hard", ptr[cur.h], 0, 0, FALSE)
    /\ (/\ Len(ops) = 3
        /\ \A i \in 1..3 : ops[i].op = "add_clause" /\ ops[i].h = 1 /\ ops[i].closed
        /\ ops[1].lits = ops[2].lits \o <<0>> \o ops[3].lits) =>
          LET n == Len(ops[1].lits) + 1
          IN  /\ Len(LogOn(1)) = 2 * n
              /\ SubSeq(LogOn(1), 1, n) = SubSeq(LogOn(1), n + 1, 2 * n)

\* C19 witness: add_clause([1, 0]) followed by add_clause([1]) and
\* add_clause([]), all on handle 1 and all run to their end.
C19_Witness ==
    /\ Len(ops) = 3
    /\ \A i \in 1..3 : ops[i].op = "add_clause" /\ ops[i].h = 1 /\ ops[i].closed
    /\ ops[1].lits = <<1, 0>> /\ ops[2].lits = <<1>> /\ ops[3].lits = <<>>

\* C15: what signature() returns is an owned copy of the engine's text, so
\* the caller's value does not point into the native buffer.
C15_SignatureOwned ==
    cur.op = "signature" /\ cur.result \notin {"panic", "crash"} =>
        cur.result = "owned" /\ held[cur.h] # "&str"

\* --------------------------------------------- several caller threads (C16)
EngineFns ==
    {"add_hard", "add_soft_lit", "assume", "solve", "set_terminate",
     "val_obj", "val_lit", "release"}

\* Variant: IPAMIR may be sent to, or shared with, any thread.
MayUseAny(t, h) == TRUE

\* IPAMIR holds a raw pointer (`ptr: *const c_void`), so it is neither Send
\* nor Sync: only the thread that created a handle can ever name it.
MayUse(t, h) == owner[h] = t

\* Thread t runs IPAMIR::new.
ThreadNew(t, h, p) ==
    /\ tcall[t] = <<>>
    /\ st[h] = "absent"
    /\ ~eng[p].live
    /\ InitOk(p)
    /\ st' = [st EXCEPT ![h] = "live"]
    /\ ptr' = [ptr EXCEPT ![h] = p]
    /\ eng' = [eng EXCEPT ![p] = FreshEng]
    /\ owner' = [owner EXCEPT ![h] = t]
    /\ UNCHANGED <<held, relCount, fault, now, cur, stack, hist, tcall>>

\* Thread t enters engine function f on the reference of handle h.
CallBegin(t, h, f) ==
    /\ tcall[t] = <<>>
    /\ st[h] = "live"
    /\ MayUse(t, h)
    /\ tcall' = [tcall EXCEPT ![t] = <<[h |-> h, f |-> f, polled |-> FALSE]>>]
    /\ UNCHANGED <<base, hist, owner>>

\* The engine runs cb on the thread that is inside ipamir_solve.
ThreadPoll(t) ==
    /\ tcall[t] # <<>>
    /\ tcall[t][1].f = "solve"
    /\ tcall' = [tcall EXCEPT ![t] = <<[@[1] EXCEPT !.polled = TRUE]>>]
    /\ UNCHANGED <<base, hist, owner>>

\* The engine function returns to thread t.
CallEnd(t) ==
    /\ tcall[t] # <<>>
    /\ tcall' = [tcall EXCEPT ![t] = <<>>]
    /\ IF tcall[t][1].f = "release"
       THEN /\ st' = [st EXCEPT ![tcall[t][1].h] = DropState]
            /\ eng' = [eng EXCEPT ![ptr[tcall[t][1].h]] = DeadEng]
       ELSE UNCHANGED <<st, eng>>
    /\ UNCHANGED <<ptr, held, relCount, fault, now, cur, stack, hist, owner>>

NextThreads ==
    \/ \E t \in Threads, h \in Handles, p \in Ptrs : ThreadNew(t, h, p)
    \/ \E t \in Threads, h \in Handles, f \in EngineFns : CallBegin(t, h, f)
    \/ \E t \in Threads : ThreadPoll(t)
    \/ \E t \in Threads : CallEnd(t)

SpecThreads == Init /\ [][NextThreads]_vars

\* The threads that are inside an engine call on the reference of handle h.
Inside(h) == {t \in Threads : tcall[t] # <<>> /\ tcall[t][1].h = h}

\* C16: at most one thread at a time is inside an engine call on a handle's
\* reference, and it is the thread the handle belongs to; while a solve is in
\* flight nothing else runs on that handle.
C16_OneCallerAtATime ==
    \A h \in Handles :
        /\ Cardinality(Inside(h)) <= 1
        /\ \A t \in Inside(h) : owner[h] = t /\ st[h] = "live"

\* C16 witness: thread 1 is inside a solve on its handle, the callback has
\* run, and thread 2 is inside add_hard on the other handle.
C16_Witness ==
    /\ tcall[1] # <<>> /\ tcall[1][1].f = "solve" /\ tcall[1][1].polled
    /\ tcall[2] # <<>> /\ tcall[2][1].f = "add_hard"
    /\ tcall[1][1].h # tcall[2][1].h

\* C17: the engine calls of a solve come in one order: one assume call per
\* literal pulled from the iterator, then (with a timeout only) the registering
\* set_terminate, made when the timer state exists, then one ipamir_solve, then
\* the deregistration of what was registered; the status is mapped only after
\* that. Until the iterator is exhausted nothing but assume calls is made.
C17_SolveOrder ==
    cur.op = "solve" =>
        LET n == Len(cur.lits)
            r == IF cur.timeout # <<>> THEN 1 ELSE 0
            p == ptr[cur.h]
        IN  /\ Len(cur.calls) >= n
            /\ \A i \in 1..n : cur.calls[i].f = "assume"
            /\ Cardinality({i \in 1..Len(cur.calls) : cur.calls[i].f = "solve"}) <= 1
            /\ cur.pc = "iter" => ~Entered /\ cur.result = "none"
            /\ ~Entered =>
                  /\ Len(cur.calls) = n
                  /\ cur.userdata = <<>>
                  /\ cur.pc = "done" => cur.result = "panic"
            /\ Entered =>
                  /\ Len(cur.calls) >= n + r + 1
                  /\ r = 1 => cur.calls[n + 1] = Call("set_terminate", p, 0, 0, TRUE)
                  /\ cur.calls[n + r + 1].f = "solve"
                  /\ cur.pc = "solving" =>
                        /\ Len(cur.calls) = n + r + 1
                        /\ cur.result = "none"
                        /\ r = 1 => /\ cur.userdata # <<>>
                                    /\ cur.userdata[1].start_time <= now
                  /\ cur.pc = "done" =>
                        /\ Len(cur.calls) = n + 2 * r + 1
                        /\ r = 1 => cur.calls[n + 3] = Dereg(p)
                        /\ cur.result # "none"

\* C17 witness: a solve with two assumptions and a timeout returned Optimal.
C17_Witness ==
    SolveDone /\ Len(cur.lits) = 2 /\ cur.timeout # <<>> /\ cur.code = 30

\* C18: when solve panics on an unknown status after a timeout was armed, the
\* callback is already deregistered, and the reference has not been released
\* and is not borrowed, so the destructor releases it, once, as on any exit.
C18_PanicAfterDeregistration ==
    SolveDone /\ cur.result = "panic" /\ cur.timeout # <<>> =>
        /\ cur.calls[Len(cur.calls)] = Dereg(ptr[cur.h])
        /\ ~eng[ptr[cur.h]].cb
        /\ st[cur.h] = "live" /\ eng[ptr[cur.h]].live
        /\ relCount[cur.h] = 0
        /\ held[cur.h] = "none"

\* C18 witness: a solve with timeout panicked on status 50 after a poll.
C18_Witness ==
    SolveDone /\ cur.result = "panic" /\ cur.timeout # <<>> /\ cur.code = 50
        /\ cur.polls = <<0>>

\* C20: the engine holds a registered callback only while a solve that was
\* given a timeout is blocked in ipamir_solve on that reference, and then the
\* timer state of that very call exists; during a blocked solve a callback is
\* registered exactly when the call was given a timeout.
C20_RegisteredOnlyDuringTimedSolve ==
    /\ \A p \in Ptrs :
          eng[p].cb =>
              /\ eng[p].live
              /\ cur.op = "solve" /\ cur.pc = "solving"
              /\ ptr[cur.h] = p
              /\ cur.timeout # <<>> /\ cur.userdata # <<>>
    /\ cur.op = "solve" /\ cur.pc = "solving" =>
          (eng[ptr[cur.h]].cb <=> cur.timeout # <<>>)

\* C20 witness: a later solve with timeout on a handle that was solved before
\* is blocked in the engine, time has passed since it was armed.
C20_Witness ==
    /\ cur.op = "solve" /\ cur.pc = "solving" /\ cur.timeout # <<>>
    /\ eng[ptr[cur.h]].cb /\ eng[ptr[cur.h]].model
    /\ now > cur.userdata[1].start_time
====
